---- MODULE Spec2Model ----
(***************************************************************************)
(* Model of pinterest_scraper.py (class PinterestScraper and main).        *)
(*                                                                         *)
(* The program is sequential.  Each stage of the pipeline is modelled as   *)
(* its own state machine over the variables it uses:                       *)
(*   Spec          constructor (driver acquisition) and scrape_board       *)
(*   SpecLogin     check_login_status / verify_login_after_manual          *)
(*   SpecScroll    scroll_to_bottom                                        *)
(*   SpecExtract   extract_image_urls                                      *)
(*   SpecDownload  download_image called in any order on one instance     *)
(*   SpecBatch     the download loop of scrape_board, run twice on the     *)
(*                 same output folder                                      *)
(***************************************************************************)
EXTENDS Integers, Sequences, FiniteSets, TLC

VARIABLES
    \* ---- constructor and scrape_board
    rpc, env, driver, created, quits, launched, rresult,
    \* ---- check_login_status
    lpc, rounds, waits, page, lidx, lresult,
    \* ---- scroll_to_bottom
    spc, max_scrolls, last_height, no_change_count, iters, hist,
    \* ---- extract_image_urls
    epc, images, timedOut, image_urls,
    \* ---- download_image
    dpc, files, downloaded_urls, gets, okGets, okOffered, last, callCount,
    \* ---- download loop of scrape_board
    bpc, urlList, idx, successful, run, getsRun, outcomes, files1, failed1

runVars     == <<rpc, env, driver, created, quits, launched, rresult>>
loginVars   == <<lpc, rounds, waits, page, lidx, lresult>>
scrollVars  == <<spc, max_scrolls, last_height, no_change_count, iters, hist>>
extractVars == <<epc, images, timedOut, image_urls>>
diskVars    == <<files, downloaded_urls>>
dlVars      == <<dpc, gets, okGets, okOffered, last, callCount>>
batchVars   == <<bpc, urlList, idx, successful, run, getsRun, outcomes, files1, failed1>>

vars == <<runVars, loginVars, scrollVars, extractVars, diskVars, dlVars, batchVars>>

(***************************************************************************)
(* Bounds of the model                                                     *)
(***************************************************************************)
\* image URLs offered to download_image are 1..MaxUrl
MaxUrl == 3
\* number of distinct values of the 8 hex digit MD5 prefix in the model
HashSpace == 2
\* img_num arguments used by direct calls of download_image
MaxOrdinal == 2
\* number of download_image calls in SpecDownload
MaxCalls == 3
\* largest number of URLs extract_image_urls returns to the download loop
MaxBatch == 2

Urls == 1..MaxUrl

(***************************************************************************)
(* download_image                                                          *)
(***************************************************************************)
\* hashlib.md5(img_url.encode()).hexdigest()[:8]: a fixed function of the URL
\* with a finite range, so that two URLs may share a prefix.
UrlHash(img_url) == img_url % HashSpace

\* f"pinterest_{img_num:04d}_{url_hash}.jpg" joined to folder_path
Filepath(img_num, img_url) == <<img_num, UrlHash(img_url)>>

\* What requests.get can produce: an exception (timeout, connection error)
\* or a response with a status code and a body that PIL accepts or not.
StatusCodes == {200, 300, 404, 500}
Responses ==
    {[kind |-> "error", status |-> 0, image |-> FALSE]} \cup
    [kind : {"response"}, status : StatusCodes, image : BOOLEAN]

\* response.raise_for_status(): raises HTTPError for 400 <= status < 600
RaisesForStatus(status) == 400 <= status /\ status < 600

\* Image.open(...).verify() inside the bare try/except
ImageVerifies(resp) == resp.image

DlResult(ret, outcome, fs, seen, get) ==
    [ret |-> ret, outcome |-> outcome, files |-> fs, seen |-> seen, get |-> get]

\* download_image that forgets to record a URL whose file already exists
DownloadImageNoMarkExisting(img_url, img_num, resp, fs, seen) ==
    IF img_url \in seen
    THEN DlResult(FALSE, "AlreadyInSession", fs, seen, FALSE)
    ELSE IF Filepath(img_num, img_url) \in fs
    THEN DlResult(TRUE, "AlreadyExists", fs, seen, FALSE)
    ELSE IF resp.kind = "error" \/ RaisesForStatus(resp.status) \/ ~ImageVerifies(resp)
    THEN DlResult(FALSE, "Failed", fs, seen, TRUE)
    ELSE DlResult(TRUE, "Success", fs \cup {Filepath(img_num, img_url)},
                  seen \cup {img_url}, TRUE)

\* download_image that writes the file before the image check
DownloadImageWriteFirst(img_url, img_num, resp, fs, seen) ==
    IF img_url \in seen
    THEN DlResult(FALSE, "AlreadyInSession", fs, seen, FALSE)
    ELSE IF Filepath(img_num, img_url) \in fs
    THEN DlResult(TRUE, "AlreadyExists", fs, seen \cup {img_url}, FALSE)
    ELSE IF resp.kind = "error" \/ RaisesForStatus(resp.status)
    THEN DlResult(FALSE, "Failed", fs, seen, TRUE)
    ELSE IF ~ImageVerifies(resp)
    THEN DlResult(FALSE, "Failed", fs \cup {Filepath(img_num, img_url)}, seen, TRUE)
    ELSE DlResult(TRUE, "Success", fs \cup {Filepath(img_num, img_url)},
                  seen \cup {img_url}, TRUE)

\* the value download_image returns and what it leaves behind:
\* ret is the boolean returned, get tells whether requests.get was called
DownloadImage(img_url, img_num, resp, fs, seen) ==
    IF img_url \in seen
    THEN DlResult(FALSE, "AlreadyInSession", fs, seen, FALSE)
    ELSE IF Filepath(img_num, img_url) \in fs
    THEN DlResult(TRUE, "AlreadyExists", fs, seen \cup {img_url}, FALSE)
    ELSE IF resp.kind = "error"
    THEN DlResult(FALSE, "Failed", fs, seen, TRUE)
    ELSE IF RaisesForStatus(resp.status)
    THEN DlResult(FALSE, "Failed", fs, seen, TRUE)
    ELSE IF ~ImageVerifies(resp)
    THEN DlResult(FALSE, "Failed", fs, seen, TRUE)
    ELSE DlResult(TRUE, "Success", fs \cup {Filepath(img_num, img_url)},
                  seen \cup {img_url}, TRUE)

NoCall == [url |-> 0, num |-> 0, outcome |-> "none", get |-> FALSE,
           status |-> 0, image |-> FALSE]

(***************************************************************************)
(* Values of the variables a stage does not use                            *)
(***************************************************************************)
NoEnv == [primaryOk |-> TRUE, patchOk |-> TRUE, exists |-> <<>>, works |-> <<>>,
          finalOk |-> TRUE]
NoPage == [inds |-> {}, logins |-> {}, getOk |-> TRUE]

RunIdle ==
    /\ rpc = "idle" /\ env = NoEnv /\ driver = 0 /\ created = 0
    /\ quits = <<>> /\ launched = <<>> /\ rresult = "none"
LoginIdle ==
    /\ lpc = "idle" /\ rounds = 0 /\ waits = 0 /\ page = NoPage
    /\ lidx = 0 /\ lresult = "none"
ScrollIdle ==
    /\ spc = "idle" /\ max_scrolls = 0 /\ last_height = 0
    /\ no_change_count = 0 /\ iters = 0 /\ hist = <<>>
ExtractIdle ==
    /\ epc = "idle" /\ images = {} /\ timedOut = FALSE /\ image_urls = {}
DiskIdle ==
    /\ files = {} /\ downloaded_urls = {}
DlIdle ==
    /\ dpc = "idle" /\ gets = <<>> /\ okGets = <<>> /\ okOffered = {}
    /\ last = NoCall /\ callCount = 0
BatchIdle ==
    /\ bpc = "idle" /\ urlList = <<>> /\ idx = 0 /\ successful = 0 /\ run = 0
    /\ getsRun = 0 /\ outcomes = <<>> /\ files1 = {} /\ failed1 = FALSE

(***************************************************************************)
(* SpecDownload: one PinterestScraper instance, download_image called with *)
(* any arguments in any order                                              *)
(***************************************************************************)
CallFiles == (1..MaxOrdinal) \X (0..(HashSpace - 1))

InitDownload ==
    /\ RunIdle /\ LoginIdle /\ ScrollIdle /\ ExtractIdle /\ BatchIdle
    /\ dpc = "calls"
    /\ files \in {{}} \cup {{f} : f \in CallFiles}
    /\ downloaded_urls = {}
    /\ gets = [u \in Urls |-> 0]
    /\ okGets = [u \in Urls |-> 0]
    /\ okOffered = {}
    /\ last = NoCall
    /\ callCount = 0

CallRecord(img_url, img_num, resp, r) ==
    [url |-> img_url, num |-> img_num, outcome |-> r.outcome, get |-> r.get,
     status |-> IF r.get THEN resp.status ELSE 0,
     image |-> IF r.get THEN resp.image ELSE FALSE]

DownloadCall ==
    /\ dpc = "calls"
    /\ callCount < MaxCalls
    /\ \E img_url \in Urls, img_num \in 1..MaxOrdinal, resp \in Responses :
         LET r == DownloadImage(img_url, img_num, resp, files, downloaded_urls) IN
         /\ files' = r.files
         /\ downloaded_urls' = r.seen
         /\ gets' = [gets EXCEPT ![img_url] = @ + (IF r.get THEN 1 ELSE 0)]
         /\ okGets' = [okGets EXCEPT
                         ![img_url] = @ + (IF r.outcome = "Success" THEN 1 ELSE 0)]
         /\ okOffered' = okOffered \cup
                (IF r.outcome \in {"Success", "AlreadyExists"} THEN {img_url} ELSE {})
         /\ last' = CallRecord(img_url, img_num, resp, r)
    /\ callCount' = callCount + 1
    /\ UNCHANGED <<dpc, runVars, loginVars, scrollVars, extractVars, batchVars>>

NextDownload == DownloadCall

SpecDownload == InitDownload /\ [][NextDownload]_vars

(***************************************************************************)
(* SpecBatch: the download loop of scrape_board, and a second run of the   *)
(* program on the same URL set and the same output folder                  *)
(***************************************************************************)
BatchFiles == (1..MaxBatch) \X (0..(HashSpace - 1))

\* the folder a first run starts with: empty, or holding one earlier file
InitialFolders == {{}} \cup {{f} : f \in BatchFiles}

\* the orders in which a run can enumerate the list made from the set of
\* extracted URLs (str hashes are randomised per process)
Enumerations(S) ==
    {q \in [1..Cardinality(S) -> S] : \A i, j \in 1..Cardinality(S) : q[i] = q[j] => i = j}

InitBatch ==
    /\ RunIdle /\ LoginIdle /\ ScrollIdle /\ ExtractIdle /\ DlIdle
    /\ bpc = "loop"
    /\ \E S \in (SUBSET Urls) \ {{}} :
         /\ Cardinality(S) <= MaxBatch
         /\ urlList \in Enumerations(S)
    /\ idx = 0
    /\ successful = 0
    /\ run = 1
    /\ getsRun = 0
    /\ outcomes = <<>>
    /\ files \in InitialFolders
    /\ files1 = {}
    /\ failed1 = FALSE
    /\ downloaded_urls = {}

\* a loop that stops at the first failed download
BatchStepAbort ==
    /\ bpc = "loop"
    /\ idx < Len(urlList)
    /\ \E resp \in Responses :
         LET r == DownloadImage(urlList[idx + 1], idx + 1, resp, files, downloaded_urls) IN
         /\ files' = r.files
         /\ downloaded_urls' = r.seen
         /\ successful' = successful + (IF r.ret THEN 1 ELSE 0)
         /\ getsRun' = getsRun + (IF r.get THEN 1 ELSE 0)
         /\ outcomes' = Append(outcomes, CallRecord(urlList[idx + 1], idx + 1, resp, r))
         /\ bpc' = IF r.outcome = "Failed" THEN "done" ELSE "loop"
    /\ idx' = idx + 1
    /\ UNCHANGED <<urlList, run, files1, failed1,
                   runVars, loginVars, scrollVars, extractVars, dlVars>>

\* one iteration of "for i, img_url in enumerate(image_urls, 1)"
BatchStep ==
    /\ bpc = "loop"
    /\ idx < Len(urlList)
    /\ \E resp \in Responses :
         LET r == DownloadImage(urlList[idx + 1], idx + 1, resp, files, downloaded_urls) IN
         /\ files' = r.files
         /\ downloaded_urls' = r.seen
         /\ successful' = successful + (IF r.ret THEN 1 ELSE 0)
         /\ getsRun' = getsRun + (IF r.get THEN 1 ELSE 0)
         /\ outcomes' = Append(outcomes, CallRecord(urlList[idx + 1], idx + 1, resp, r))
    /\ idx' = idx + 1
    /\ UNCHANGED <<bpc, urlList, run, files1, failed1,
                   runVars, loginVars, scrollVars, extractVars, dlVars>>

\* the loop is exhausted: the result lines are printed
BatchFinish ==
    /\ bpc = "loop"
    /\ idx = Len(urlList)
    /\ bpc' = "done"
    /\ UNCHANGED <<urlList, idx, successful, run, getsRun, outcomes, files1, failed1,
                   diskVars, runVars, loginVars, scrollVars, extractVars, dlVars>>

\* the program is started again on the same board and folder: a new
\* PinterestScraper, the same set of URLs in the order this process
\* enumerates it
SecondRun ==
    /\ bpc = "done"
    /\ run = 1
    /\ run' = 2
    /\ bpc' = "loop"
    /\ urlList' \in Enumerations({urlList[i] : i \in 1..Len(urlList)})
    /\ idx' = 0
    /\ successful' = 0
    /\ getsRun' = 0
    /\ outcomes' = <<>>
    /\ downloaded_urls' = {}
    /\ files1' = files
    /\ failed1' = (\E i \in 1..Len(outcomes) : outcomes[i].outcome = "Failed")
    /\ UNCHANGED <<files, runVars, loginVars, scrollVars, extractVars, dlVars>>

NextBatch == BatchStep \/ BatchFinish \/ SecondRun

SpecBatch == InitBatch /\ [][NextBatch]_vars

Failures(os) == {i \in 1..Len(os) : os[i].outcome = "Failed"}

\* C2: after a first run in which every download succeeded, a second run on
\* the same URL set and folder issues no HTTP GET, every outcome of it is
\* Skipped(AlreadyExists), and it leaves the set of files as the first run
\* left it.
C2_SecondRunIdempotent ==
    (run = 2 /\ ~failed1)
        => /\ getsRun = 0
           /\ \A i \in 1..Len(outcomes) : outcomes[i].outcome = "AlreadyExists"
           /\ files = files1

\* C4: a failed download never aborts the batch: when the result is
\* reported, download_image has been called for all N URLs in enumeration
\* order and the number reported as successful is N minus the number of
\* Failed outcomes.
C4_BatchNeverAborts ==
    bpc = "done"
        => /\ Len(outcomes) = Len(urlList)
           /\ \A i \in 1..Len(outcomes) :
                outcomes[i].url = urlList[i] /\ outcomes[i].num = i
           /\ successful = Len(urlList) - Cardinality(Failures(outcomes))

\* a finished batch in which a failure was followed by a successful download
C4_Witness ==
    /\ bpc = "done"
    /\ Len(urlList) >= 2
    /\ \E i, j \in 1..Len(outcomes) :
         /\ i < j
         /\ outcomes[i].outcome = "Failed"
         /\ outcomes[j].outcome = "Success"

StepOfBatch == Len(outcomes') = Len(outcomes) + 1
LastOutcome == outcomes'[Len(outcomes')]

MaxScrollsBound == 5
\* document.body.scrollHeight takes the values 1000, 2000, .. 1000 * MaxHeightK
MaxHeightK == 3

Heights == {1000 * k : k \in 1..MaxHeightK}

\* "if no_change_count >= 3"
NoChangeLimit == 3

InitScroll ==
    /\ RunIdle /\ LoginIdle /\ ExtractIdle /\ DiskIdle /\ DlIdle /\ BatchIdle
    /\ spc = "start"
    /\ max_scrolls \in 0..MaxScrollsBound
    /\ last_height = 0
    /\ no_change_count = 0
    /\ iters = 0
    /\ hist = <<>>

\* the two statements before the loop, and the first test of range(max_scrolls)
ScrollStart ==
    /\ spc = "start"
    /\ \E h \in Heights :
         /\ last_height' = h
         /\ hist' = <<h>>
    /\ no_change_count' = 0
    /\ iters' = 0
    /\ spc' = IF max_scrolls = 0 THEN "done" ELSE "loop"
    /\ UNCHANGED <<max_scrolls, runVars, loginVars, extractVars, diskVars, dlVars, batchVars>>

\* a counter that is reset only when the page grew
HeightCheckGrowOnly(new_height, prev_height, count) ==
    IF new_height > prev_height
    THEN [count |-> 0, last |-> new_height, brk |-> FALSE]
    ELSE [count |-> count + 1, last |-> prev_height, brk |-> count + 1 >= NoChangeLimit]

\* a loop that stops one unchanged reading too early
HeightCheckEarly(new_height, prev_height, count) ==
    IF new_height = prev_height
    THEN [count |-> count + 1, last |-> prev_height, brk |-> count + 1 >= NoChangeLimit - 1]
    ELSE [count |-> 0, last |-> new_height, brk |-> FALSE]

\* "if new_height == last_height: ... else: ..." of one iteration
HeightCheck(new_height, prev_height, count) ==
    IF new_height = prev_height
    THEN [count |-> count + 1, last |-> prev_height, brk |-> count + 1 >= NoChangeLimit]
    ELSE [count |-> 0, last |-> new_height, brk |-> FALSE]

\* one iteration of "for i in range(max_scrolls)": scroll, sleep, read the
\* height, update the counter, break or test the range again
ScrollIter ==
    /\ spc = "loop"
    /\ iters < max_scrolls
    /\ \E new_height \in Heights :
         LET r == HeightCheck(new_height, last_height, no_change_count) IN
         /\ no_change_count' = r.count
         /\ last_height' = r.last
         /\ hist' = Append(hist, new_height)
         /\ spc' = IF r.brk \/ iters + 1 = max_scrolls THEN "done" ELSE "loop"
    /\ iters' = iters + 1
    /\ UNCHANGED <<max_scrolls, runVars, loginVars, extractVars, diskVars, dlVars, batchVars>>

NextScroll == ScrollStart \/ ScrollIter

SpecScroll == InitScroll /\ [][NextScroll]_vars

(***************************************************************************)
(* Properties of scroll_to_bottom                                          *)
(***************************************************************************)
\* C6 (as stated): with heights 1000, 2000, 2000, 2000 reported and
\* max_scrolls >= 3, the counter has reached 3 and the loop has terminated
\* at iteration 3.
C6_StopsAtThree ==
    (hist = <<1000, 2000, 2000, 2000>> /\ max_scrolls >= 3)
        => (no_change_count = 3 /\ iters = 3 /\ spc = "done")

\* C6 (amended): with heights 1000, 2000, 2000, 2000 reported the counter is
\* 2 after iteration 3 and the loop goes on when max_scrolls >= 4; with a
\* fourth 2000 the counter reaches 3 and the loop terminates at iteration 4,
\* performing no fifth scroll.
C6_StopsAtFour ==
    /\ (hist = <<1000, 2000, 2000, 2000>>
          => /\ no_change_count = 2
             /\ iters = 3
             /\ (max_scrolls >= 4 => spc = "loop"))
    /\ (hist = <<1000, 2000, 2000, 2000, 2000>>
          => /\ no_change_count = 3
             /\ iters = 4
             /\ spc = "done")
    /\ (Len(hist) > 5 => SubSeq(hist, 1, 5) # <<1000, 2000, 2000, 2000, 2000>>)

\* the loop ended by the counter after the fourth 2000, with scrolls to spare
C6_Witness ==
    /\ hist = <<1000, 2000, 2000, 2000, 2000>>
    /\ spc = "done"
    /\ max_scrolls > 4

RECURSIVE CountGrowOnly(_, _)
\* the counter of the claim after n iterations: reset when the height grew,
\* incremented when it is equal or smaller
CountGrowOnly(h, n) ==
    IF n = 0 THEN 0
    ELSE IF h[n + 1] > h[n] THEN 0
    ELSE CountGrowOnly(h, n - 1) + 1

RECURSIVE CountUnchanged(_, _)
\* the counter after n iterations: reset when the height differs from the
\* one before, incremented when it is equal
CountUnchanged(h, n) ==
    IF n = 0 THEN 0
    ELSE IF h[n + 1] # h[n] THEN 0
    ELSE CountUnchanged(h, n - 1) + 1

\* C8 (as stated): the loop ends after exactly min(max_scrolls, k)
\* iterations, k the first iteration at which the counter reaches 3, where
\* the counter is reset only by a height increase and incremented by an
\* equal or a smaller height.
C8_ResetOnlyOnIncrease ==
    spc \in {"loop", "done"}
        => /\ iters = Len(hist) - 1
           /\ no_change_count = CountGrowOnly(hist, iters)
           /\ LET reached == {n \in 1..iters : CountGrowOnly(hist, n) >= 3} IN
              /\ (spc = "done" => (iters = max_scrolls \/ iters \in reached))
              /\ (spc = "loop" => (iters < max_scrolls /\ reached = {}))
              /\ \A n \in reached : n = iters

\* C8 (amended): the loop ends after exactly min(max_scrolls, k) iterations,
\* k the first iteration at which the counter reaches 3, where the counter
\* is reset by every height different from the one before (larger or
\* smaller) and incremented only by an equal height.
C8_ResetOnAnyChange ==
    spc \in {"loop", "done"}
        => /\ iters = Len(hist) - 1
           /\ no_change_count = CountUnchanged(hist, iters)
           /\ LET reached == {n \in 1..iters : CountUnchanged(hist, n) >= 3} IN
              /\ (spc = "done" => (iters = max_scrolls \/ iters \in reached))
              /\ (spc = "loop" => (iters < max_scrolls /\ reached = {}))
              /\ \A n \in reached : n = iters

\* the page shrank once, and later three unchanged readings ended the loop
\* before the scroll budget was used up
C8_Witness ==
    /\ spc = "done"
    /\ no_change_count = 3
    /\ iters < max_scrolls
    /\ \E i \in 1..(Len(hist) - 1) : hist[i + 1] < hist[i]

(***************************************************************************)
(* SpecLogin: check_login_status and verify_login_after_manual             *)
(***************************************************************************)
\* number of times one call may load the home page in the model
MaxRounds == 4

\* len(logged_in_indicators), len(login_indicators)
NumLoggedInIndicators == 4
NumLoginIndicators == 3

\* What a load of the home page can show: whether driver.get and the
\* probing raised, which logged-in indicators are found and displayed,
\* which login indicators are found and displayed.
Pages ==
    [getOk : BOOLEAN,
     inds : SUBSET (1..NumLoggedInIndicators),
     logins : SUBSET (1..NumLoginIndicators)]

SetMin(S) == CHOOSE x \in S : \A y \in S : x <= y

InitLogin ==
    /\ RunIdle /\ ScrollIdle /\ ExtractIdle /\ DiskIdle /\ DlIdle /\ BatchIdle
    /\ lpc = "probe"
    /\ rounds = 0
    /\ waits = 0
    /\ page = NoPage
    /\ lidx = 0
    /\ lresult = "none"

\* check_login_status from its entry to its first return or input():
\* load the home page, look for a logged-in indicator, then for a login
\* indicator
LoginProbe ==
    /\ lpc = "probe"
    /\ rounds < MaxRounds
    /\ rounds' = rounds + 1
    /\ \E p \in Pages :
         /\ page' = p
         /\ IF ~p.getOk
            THEN lpc' = "returned" /\ lresult' = "false" /\ lidx' = 0
            ELSE IF p.inds # {}
            THEN lpc' = "returned" /\ lresult' = "true" /\ lidx' = 0
            ELSE IF p.logins = {}
            THEN lpc' = "returned" /\ lresult' = "true" /\ lidx' = 0
            ELSE lpc' = "input" /\ lresult' = "none" /\ lidx' = SetMin(p.logins)
    /\ UNCHANGED <<waits, runVars, scrollVars, extractVars, diskVars, dlVars, batchVars>>

\* a verification that trusts the user and does not look at the page again
VerifyWithoutProbe ==
    /\ lpc' = "returned"
    /\ lresult' = "true"
    /\ UNCHANGED <<rounds, page, lidx>>

\* verify_login_after_manual: sleep, then "return self.check_login_status()";
\* the caller returns that value unchanged
VerifyLoginAfterManual ==
    /\ lpc' = "probe"
    /\ UNCHANGED <<rounds, page, lidx, lresult>>

\* input() returns: the user pressed Enter
InputReturns ==
    /\ lpc = "input"
    /\ waits' = waits + 1
    /\ VerifyLoginAfterManual
    /\ UNCHANGED <<runVars, scrollVars, extractVars, diskVars, dlVars, batchVars>>

\* input() raises (end of file on stdin): the bare except continues with
\* the next login indicator, and after the last one the status is reported
\* as undetermined
InputRaises ==
    /\ lpc = "input"
    /\ LET rest == {k \in page.logins : k > lidx} IN
         IF rest = {}
         THEN lpc' = "returned" /\ lresult' = "true" /\ lidx' = 0
         ELSE lpc' = "input" /\ lresult' = "none" /\ lidx' = SetMin(rest)
    /\ UNCHANGED <<rounds, waits, page,
                   runVars, scrollVars, extractVars, diskVars, dlVars, batchVars>>

NextLogin == LoginProbe \/ InputReturns \/ InputRaises

SpecLogin == InitLogin /\ [][NextLogin]_vars

(***************************************************************************)
(* Properties of check_login_status                                        *)
(***************************************************************************)
\* C9 (as stated): one call waits for the manual login signal at most once
\* and loads the page at most twice.
C9_WaitsAtMostOnce == lpc # "idle" => (waits <= 1 /\ rounds <= 2)

\* C9 (amended): one call waits for the manual login signal once for every
\* load of the page that shows a login indicator and no logged-in indicator,
\* and after each wait runs the whole check again, which can wait again; it
\* returns only from a load that raised (false), showed a logged-in
\* indicator (true) or showed neither kind (true), or after input() raised,
\* and has then loaded the page once more than it has waited.
C9_WaitPerLoginPage ==
    /\ [](lpc = "returned"
            => /\ rounds = waits + 1
               /\ (lresult = "false") = (~page.getOk)
               /\ (lresult = "true") = page.getOk)
    /\ [](lpc = "probe" => rounds = waits)
    /\ [][waits' = waits + 1
            => /\ page.getOk /\ page.inds = {} /\ page.logins # {}
               /\ lpc' = "probe"]_vars

\* a call that waited twice and returned after its third load of the page
C9_Witness ==
    /\ lpc = "returned"
    /\ waits = 2
    /\ rounds = 3
    /\ page.inds # {}

(***************************************************************************)
(* SpecExtract: extract_image_urls                                         *)
(***************************************************************************)
\* A src attribute is a sequence of pieces; the size tokens cannot overlap
\* one another, so str.replace and "in" work piece by piece.
MaxSrcLen == 3
\* number of img elements on the page
MaxImages == 2

\* the pieces a src is made of: the asset host and the two size tokens
Tokens == {"pinimg.com", "236x", "564x"}

\* the empty sequence is a missing or empty src
Srcs == UNION {[1..n -> Tokens] : n \in 0..MaxSrcLen}

\* 'tok' in src
Contains(src, tok) == \E i \in 1..Len(src) : src[i] = tok

\* src.replace(old, new): every occurrence is replaced
Replace(src, old, new) == [i \in 1..Len(src) |-> IF src[i] = old THEN new ELSE src[i]]

\* the if / elif / else on the size token
HighRes(src) ==
    IF Contains(src, "236x") THEN Replace(src, "236x", "736x")
    ELSE IF Contains(src, "564x") THEN Replace(src, "564x", "736x")
    ELSE src

InitExtract ==
    /\ RunIdle /\ LoginIdle /\ ScrollIdle /\ DiskIdle /\ DlIdle /\ BatchIdle
    /\ epc = "start"
    /\ timedOut \in BOOLEAN
    /\ \E n \in 0..MaxImages : \E f \in [1..n -> Srcs] : images = {f[i] : i \in 1..n}
    \* WebDriverWait returns only when a pinimg.com image is present
    /\ (~timedOut => \E s \in images : Contains(s, "pinimg.com"))
    /\ image_urls = {}

\* the whole of extract_image_urls: the try block, or after TimeoutException
\* the except block; the result is the set the returned list is made from
ExtractImageUrls ==
    /\ epc = "start"
    /\ image_urls' =
         IF ~timedOut
         THEN {HighRes(src) : src \in {s \in images : Contains(s, "pinimg.com")}}
         ELSE {src \in images : src # <<>> /\ Contains(src, "pinimg.com")}
    /\ epc' = "done"
    /\ UNCHANGED <<images, timedOut,
                   runVars, loginVars, scrollVars, diskVars, dlVars, batchVars>>

NextExtract == ExtractImageUrls

SpecExtract == InitExtract /\ [][NextExtract]_vars

(***************************************************************************)
(* Properties of extract_image_urls                                        *)
(***************************************************************************)
LowResTokens == {"236x", "564x"}

\* the rewrite of the claim: the first low-resolution size token becomes
\* 736x, every other piece stays
UpgradeFirst(src) ==
    LET low == {i \in 1..Len(src) : src[i] \in LowResTokens} IN
    IF low = {} THEN src
    ELSE [i \in 1..Len(src) |-> IF i = SetMin(low) THEN "736x" ELSE src[i]]

\* C5: under either strategy the result holds, for every collected source,
\* the source with exactly its first low-resolution size token replaced by
\* 736x (and the source itself when it has no such token).
C5_FirstTokenUpgraded ==
    epc = "done"
        => image_urls = {UpgradeFirst(src) : src \in {s \in images : Contains(s, "pinimg.com")}}

(***************************************************************************)
(* Spec: PinterestScraper() followed by scrape_board, as main runs them    *)
(***************************************************************************)
\* len(possible_paths)
NumPaths == 3

\* What the host offers to the constructor: whether webdriver.Chrome(options)
\* starts a browser, whether the execute_script that follows succeeds, which
\* chromedriver paths exist, whether webdriver.Chrome(executable_path=p, ..)
\* starts a browser, and whether the final webdriver.Chrome(options) does.
Envs ==
    [primaryOk : BOOLEAN, patchOk : BOOLEAN,
     exists : [1..NumPaths -> BOOLEAN], works : [1..NumPaths -> BOOLEAN],
     finalOk : BOOLEAN]

\* launch attempts are named by the path index; 0 is webdriver.Chrome(options)
\* without a path
AutoLaunch == 0

\* setup_driver_alternative: launched is what was started, ok whether a
\* driver came out of it (otherwise the exception is re-raised)
SetupDriverAlternative(e) ==
    LET present == {p \in 1..NumPaths : e.exists[p]} IN
    IF present # {}
    THEN [launched |-> <<SetMin(present)>>, ok |-> e.works[SetMin(present)]]
    ELSE [launched |-> <<AutoLaunch>>, ok |-> e.finalOk]

\* setup_driver: sessions is the number of browser sessions started, driver
\* the session self.driver refers to, raised whether __init__ raised
SetupDriver(e) ==
    IF e.primaryOk /\ e.patchOk
    THEN [sessions |-> 1, driver |-> 1, launched |-> <<AutoLaunch>>, raised |-> FALSE]
    ELSE LET first == IF e.primaryOk THEN 1 ELSE 0
             alt == SetupDriverAlternative(e) IN
         [sessions |-> first + (IF alt.ok THEN 1 ELSE 0),
          driver |-> IF alt.ok THEN first + 1 ELSE first,
          launched |-> <<AutoLaunch>> \o alt.launched,
          raised |-> ~alt.ok]

Init ==
    /\ LoginIdle /\ ScrollIdle /\ ExtractIdle /\ DiskIdle /\ DlIdle /\ BatchIdle
    /\ rpc = "new"
    /\ env \in Envs
    /\ driver = 0
    /\ created = 0
    /\ quits = <<>>
    /\ launched = <<>>
    /\ rresult = "none"

runRest == <<loginVars, scrollVars, extractVars, diskVars, dlVars, batchVars>>

\* scraper = PinterestScraper(headless=False)
Construct ==
    /\ rpc = "new"
    /\ LET r == SetupDriver(env) IN
         /\ created' = r.sessions
         /\ driver' = r.driver
         /\ launched' = r.launched
         /\ quits' = [s \in 1..r.sessions |-> 0]
         /\ IF r.raised
            THEN rpc' = "ended" /\ rresult' = "init raised"
            ELSE rpc' = "makedirs" /\ rresult' = "none"
    /\ UNCHANGED <<env, runRest>>

\* os.makedirs(output_folder, exist_ok=True), before the try statement
Makedirs ==
    /\ rpc = "makedirs"
    /\ \/ rpc' = "login" /\ rresult' = "none"
       \/ rpc' = "ended" /\ rresult' = "raised"
    /\ UNCHANGED <<env, driver, created, quits, launched, runRest>>

\* "if not self.check_login_status(): return"
CheckLogin ==
    /\ rpc = "login"
    /\ \/ rpc' = "navigate" /\ rresult' = "none"
       \/ rpc' = "finally" /\ rresult' = "returned"
    /\ UNCHANGED <<env, driver, created, quits, launched, runRest>>

\* self.driver.get(board_url), the sleep and the test of current_url
Navigate ==
    /\ rpc = "navigate"
    /\ \/ rpc' = "scroll" /\ rresult' = "none"
       \/ rpc' = "finally" /\ rresult' = "returned"
       \/ rpc' = "finally" /\ rresult' = "raised"
    /\ UNCHANGED <<env, driver, created, quits, launched, runRest>>

\* self.scroll_to_bottom()
ScrollStage ==
    /\ rpc = "scroll"
    /\ \/ rpc' = "extract" /\ rresult' = "none"
       \/ rpc' = "finally" /\ rresult' = "raised"
    /\ UNCHANGED <<env, driver, created, quits, launched, runRest>>

\* image_urls = self.extract_image_urls() and "if not image_urls: return"
ExtractStage ==
    /\ rpc = "extract"
    /\ \/ rpc' = "download" /\ rresult' = "none"
       \/ rpc' = "finally" /\ rresult' = "returned"
       \/ rpc' = "finally" /\ rresult' = "raised"
    /\ UNCHANGED <<env, driver, created, quits, launched, runRest>>

\* the download loop and the result lines
DownloadStage ==
    /\ rpc = "download"
    /\ rpc' = "finally"
    /\ rresult' = "completed"
    /\ UNCHANGED <<env, driver, created, quits, launched, runRest>>

\* finally: self.driver.quit()
Finally ==
    /\ rpc = "finally"
    /\ quits' = [quits EXCEPT ![driver] = @ + 1]
    /\ rpc' = "ended"
    /\ UNCHANGED <<env, driver, created, launched, rresult, runRest>>

Next ==
    \/ Construct
    \/ Makedirs
    \/ CheckLogin
    \/ Navigate
    \/ ScrollStage
    \/ ExtractStage
    \/ DownloadStage
    \/ Finally

Spec == Init /\ [][Next]_vars

(***************************************************************************)
(* Properties of the run                                                   *)
(***************************************************************************)
\* C3: when the run has ended, on whatever path, every browser session
\* created during it has been closed exactly once.
C3_SessionsClosedOnce ==
    rpc = "ended" => \A s \in 1..created : quits[s] = 1

\* C10: construction fails only after every known chromedriver path that
\* exists has been tried: a failure at one candidate moves on to the next.
C10_FailsOnlyWhenExhausted ==
    (rpc = "ended" /\ rresult = "init raised")
        => \A p \in 1..NumPaths :
             env.exists[p] => \E k \in 1..Len(launched) : launched[k] = p

====
